---- MODULE Spec2Model ----
\* Model of package binding (src/binding/bind.go): the per-type plan cache,
\* the plan-building walk of getObjOrPrepare, the dispatch loop of bind and
\* the public operations Bind, BindAndValidate, SetLevel, SetErrorFactory.
EXTENDS Integers, Sequences, FiniteSets

\* ---------------------------------------------------------------- bounds
\* number of Bind / BindAndValidate calls that may be started
MaxCalls == 2
\* number of SetLevel / SetErrorFactory calls that may be made
MaxSets == 1
\* number of configuration calls in the runs that only configure
MaxCfgSets == 5

\* the calls that can be in progress at once, each in its goroutine
Goroutines == {1, 2}

\* ---------------------------------------------------------------- levels
OnlyFirst == 0
FirstAndTagged == 1
Any == 2
\* a Level value outside the three declared ones (Level is a uint8)
OtherLevel == 3
LevelArgs == {OnlyFirst, FirstAndTagged, Any, OtherLevel}

\* ---------------------------------------------------------------- errors
\* An error value records who constructed it: kind "bind" (built by a
\* bind-error factory), "vd" (built by the validation-error factory) or
\* "raw" (an error of a collaborator handed on as it is).
NoErr == [kind |-> "nil", fac |-> "-", sel |-> "", msg |-> ""]
MkErr(k, f, s, m) == [kind |-> k, fac |-> f, sel |-> s, msg |-> m]

defaultBindErrFactory == "binding failed"
defaultValidatingErrFactory == "invalid parameter"
Nil == "nil"
BindFactoryArgs == {Nil, "f1"}
VdFactoryArgs == {Nil, "v1"}
\* the arguments in the runs that only configure
CfgBindFactoryArgs == {Nil, "f1", "f2"}
CfgVdFactoryArgs == {Nil, "v1", "v2"}

StructPointerMsg == "structPointer must be a non-nil struct pointer"

\* ---------------------------------------------------------------- sources
auto == "auto"
query == "query"
path == "path"
header == "header"
cookie == "cookie"
body == "body"
raw_body == "raw_body"

MatchExprName == "@"
ErrMsgExprName == "msg"
\* a directive argument that does not evaluate to a parameter name
BadArg == "#bad"

\* ---------------------------------------------------------------- record types
\* A field as the expression evaluator exposes it: selector, declared name,
\* whether it lies below the top level (paths of FieldSelector().Split() not
\* empty), whether its value can be set, and its named sub-expressions.
Ev(n, a) == [n |-> n, a |-> a]
Fld(s, nm, nested, canSet, evs) ==
    [sel |-> s, name |-> nm, nested |-> nested, canSet |-> canSet, evals |-> evs]

TypeIDs ==
    {"TEmpty", "TAuto", "TMulti", "TNested", "TBadName", "TBadExpr", "TUnset"}

\* whether the rule compiler accepts the type's tags
Compiles(T) == T # "TBadExpr"

FieldsOf(T) ==
    CASE T = "TEmpty" -> << >>
      [] T = "TAuto" ->
           << Fld("A", "a", FALSE, TRUE, {Ev(MatchExprName, "")}),
              Fld("B", "b", FALSE, TRUE, {Ev("required", "true")}) >>
      [] T = "TMulti" ->
           << Fld("M", "m", FALSE, TRUE, {Ev(query, "mq"), Ev(header, "X-M")}),
              Fld("P", "P", FALSE, TRUE, {Ev(path, "id"), Ev("required", "true")}),
              Fld("C", "C", FALSE, TRUE, {Ev(cookie, "sid")}),
              Fld("Bd", "Bd", FALSE, TRUE, {Ev(body, "a"), Ev("other", "x")}),
              Fld("R", "R", FALSE, TRUE, {Ev(raw_body, ""), Ev(ErrMsgExprName, "m")}) >>
      [] T = "TNested" ->
           << Fld("Top", "a", FALSE, TRUE,
                  {Ev("required", "true"), Ev(MatchExprName, "")}),
              Fld("In.Tagged", "b", TRUE, TRUE, {Ev(query, "")}),
              Fld("In.Plain", "c", TRUE, TRUE, {Ev(MatchExprName, "")}),
              Fld("In.hidden", "hidden", TRUE, FALSE, {}) >>
      [] T = "TBadName" ->
           << Fld("X", "a", FALSE, TRUE, {Ev(query, BadArg)}) >>
      [] T = "TUnset" ->
           << Fld("x", "x", FALSE, FALSE, {}) >>
      [] OTHER -> << >>

\* all orders in which a range over the map of sub-expressions can visit them
RECURSIVE Perms(_)
Perms(S) ==
    IF S = {} THEN { << >> }
    ELSE UNION { { <<e>> \o p : p \in Perms(S \ {e}) } : e \in S }

\* one visiting order per field of T
RECURSIVE OrdersFrom(_, _)
OrdersFrom(fs, i) ==
    IF i > Len(fs) THEN { << >> }
    ELSE { <<o>> \o rest : o \in Perms(fs[i].evals), rest \in OrdersFrom(fs, i + 1) }

Orders(T) == OrdersFrom(FieldsOf(T), 1)

\* ---------------------------------------------------------------- plans
\* A field descriptor (paramInfo) and a plan (receiver). id is the identity
\* of the receiver instance (the pointer): the number of the walk that
\* allocated it among the walks made for its type.
NewParam(f, fac) ==
    [sel |-> f.sel, in |-> "", name |-> "", required |-> FALSE, fac |-> fac,
     requiredError |-> NoErr, typeError |-> NoErr]

NewReceiver(id) ==
    [id |-> id, params |-> << >>, hasRawBody |-> FALSE, hasBody |-> FALSE,
     hasQuery |-> FALSE, hasPath |-> FALSE, hasCookie |-> FALSE,
     hasAuto |-> FALSE, hasVd |-> FALSE, inited |-> FALSE]

NoPlan == NewReceiver(0)

SourceDirectives == {raw_body, body, query, path, header, cookie}
HandledDirectives == SourceDirectives \cup {"required"}

\* the middle level taking any sub-expression of a nested field as a tag
Admits_anyTagged(lvl, f) ==
    CASE lvl = OnlyFirst -> ~f.nested
      [] lvl = FirstAndTagged -> ~f.nested \/ f.evals # {}
      [] OTHER -> TRUE

\* the switch on b.level at the head of the walk's callback
Admits(lvl, f) ==
    CASE lvl = OnlyFirst -> ~f.nested
      [] lvl = FirstAndTagged ->
           ~f.nested \/ (\E e \in f.evals : e.n \in HandledDirectives)
      [] OTHER -> TRUE

FakeBool(a) == a = "true"

\* the parameter name a source directive yields: its argument, the name so
\* far when the argument is empty, an error message when it is no name
getParamName(a, name) ==
    IF a = BadArg THEN [name |-> "", errMsg |-> "parameter name is not a string"]
    ELSE IF a = "" THEN [name |-> name, errMsg |-> ""]
    ELSE [name |-> a, errMsg |-> ""]

\* EvalStep treating cookie like header, which has no flag
EvalStep_noCookieFlag(st, f, e) ==
    CASE e.n = MatchExprName -> [st EXCEPT !.recv.hasVd = TRUE]
      [] e.n = ErrMsgExprName -> st
      [] e.n = "required" -> [st EXCEPT !.p.required = FakeBool(e.a)]
      [] e.n \in SourceDirectives ->
           LET r1 == CASE e.n = raw_body -> [st.recv EXCEPT !.hasRawBody = TRUE]
                       [] e.n = body -> [st.recv EXCEPT !.hasBody = TRUE]
                       [] e.n = query -> [st.recv EXCEPT !.hasQuery = TRUE]
                       [] e.n = path -> [st.recv EXCEPT !.hasPath = TRUE]
                       [] OTHER -> st.recv
               pn == getParamName(e.a, st.name)
           IN  [st EXCEPT !.recv = r1, !.in = e.n, !.name = pn.name,
                          !.errMsg = pn.errMsg,
                          !.errSel = IF pn.errMsg # "" THEN f.sel \o "@" \o e.n
                                     ELSE st.errSel]
      [] OTHER -> st

\* one iteration of the loop L over the sub-expressions of a field;
\* st carries recv, the descriptor p, in, name, errMsg and errExprSelector
EvalStep(st, f, e) ==
    CASE e.n = MatchExprName -> [st EXCEPT !.recv.hasVd = TRUE]
      [] e.n = ErrMsgExprName -> st
      [] e.n = "required" -> [st EXCEPT !.p.required = FakeBool(e.a)]
      [] e.n \in SourceDirectives ->
           LET r1 == CASE e.n = raw_body -> [st.recv EXCEPT !.hasRawBody = TRUE]
                       [] e.n = body -> [st.recv EXCEPT !.hasBody = TRUE]
                       [] e.n = query -> [st.recv EXCEPT !.hasQuery = TRUE]
                       [] e.n = path -> [st.recv EXCEPT !.hasPath = TRUE]
                       [] e.n = cookie -> [st.recv EXCEPT !.hasCookie = TRUE]
                       [] OTHER -> st.recv
               pn == getParamName(e.a, st.name)
           IN  [st EXCEPT !.recv = r1, !.in = e.n, !.name = pn.name,
                          !.errMsg = pn.errMsg,
                          !.errSel = IF pn.errMsg # "" THEN f.sel \o "@" \o e.n
                                     ELSE st.errSel]
      [] OTHER -> st

RECURSIVE EvalLoop(_, _, _, _)
EvalLoop(st, f, evs, k) ==
    IF k > Len(evs) \/ st.errMsg # "" THEN st
    ELSE EvalLoop(EvalStep(st, f, evs[k]), f, evs, k + 1)

\* the callback of expr.RangeFields for one field; the result's go tells
\* whether the range continues
VisitField(recv, f, lvl, fac, evs) ==
    IF ~Admits(lvl, f) THEN [recv |-> recv, errMsg |-> "", errSel |-> "", go |-> TRUE]
    ELSE IF ~f.canSet
    THEN [recv |-> recv, errMsg |-> "field cannot be set: " \o f.sel,
          errSel |-> f.sel, go |-> FALSE]
    ELSE LET st0 == [recv |-> recv, p |-> NewParam(f, fac), in |-> auto,
                     name |-> f.name, errMsg |-> "", errSel |-> ""]
             st == EvalLoop(st0, f, evs, 1)
             ra == IF st.in = auto
                   THEN [st.recv EXCEPT !.hasBody = TRUE, !.hasAuto = TRUE]
                   ELSE st.recv
         IN  IF st.errMsg # ""
             THEN [recv |-> [st.recv EXCEPT !.params = Append(@, st.p)],
                   errMsg |-> st.errMsg, errSel |-> st.errSel, go |-> FALSE]
             ELSE [recv |-> [ra EXCEPT !.params =
                               Append(@, [st.p EXCEPT !.in = st.in, !.name = st.name])],
                   errMsg |-> "", errSel |-> "", go |-> TRUE]

RECURSIVE RangeFields(_, _, _, _, _, _)
RangeFields(recv, fs, i, lvl, fac, ord) ==
    IF i > Len(fs) THEN [recv |-> recv, errMsg |-> "", errSel |-> ""]
    ELSE LET r == VisitField(recv, fs[i], lvl, fac, ord[i])
         IN  IF r.go THEN RangeFields(r.recv, fs, i + 1, lvl, fac, ord)
             ELSE [recv |-> r.recv, errMsg |-> r.errMsg, errSel |-> r.errSel]

\* the errors of every descriptor, made once from the factory it captured
initParams(recv) ==
    [recv EXCEPT !.inited = TRUE,
                 !.params = [i \in DOMAIN recv.params |->
                    [recv.params[i] EXCEPT
                       !.requiredError = MkErr("bind", recv.params[i].fac,
                                               recv.params[i].sel,
                                               "missing required parameter"),
                       !.typeError = MkErr("bind", recv.params[i].fac,
                                           recv.params[i].sel,
                                           "parameter type does not match binding data")]]]

\* Prepare handing the plan on before initParams has run
Prepare_noInit(T, id, lvl, fac, ord) ==
    IF ~Compiles(T)
    THEN [err |-> MkErr("raw", "-", "", "syntax error in tag expression"),
          recv |-> NoPlan, failed |-> TRUE]
    ELSE LET w == RangeFields(NewReceiver(id), FieldsOf(T), 1, lvl, fac, ord)
         IN  IF w.errMsg # ""
             THEN [err |-> MkErr("bind", fac, w.errSel, w.errMsg),
                   recv |-> w.recv, failed |-> TRUE]
             ELSE [err |-> NoErr, recv |-> w.recv, failed |-> FALSE]

\* Prepare refusing a walk that made no descriptor
Prepare_rejectEmpty(T, id, lvl, fac, ord) ==
    IF ~Compiles(T)
    THEN [err |-> MkErr("raw", "-", "", "syntax error in tag expression"),
          recv |-> NoPlan, failed |-> TRUE]
    ELSE LET w == RangeFields(NewReceiver(id), FieldsOf(T), 1, lvl, fac, ord)
         IN  IF w.errMsg # "" \/ w.recv.params = << >>
             THEN [err |-> MkErr("bind", fac, w.errSel, w.errMsg),
                   recv |-> w.recv, failed |-> TRUE]
             ELSE [err |-> NoErr, recv |-> initParams(w.recv), failed |-> FALSE]

\* the building part of getObjOrPrepare (after the cache miss): the result
\* has the error to return, or the finished plan to store
Prepare(T, id, lvl, fac, ord) ==
    IF ~Compiles(T)
    THEN [err |-> MkErr("raw", "-", "", "syntax error in tag expression"),
          recv |-> NoPlan, failed |-> TRUE]
    ELSE LET w == RangeFields(NewReceiver(id), FieldsOf(T), 1, lvl, fac, ord)
         IN  IF w.errMsg # ""
             THEN [err |-> MkErr("bind", fac, w.errSel, w.errMsg),
                   recv |-> w.recv, failed |-> TRUE]
             ELSE [err |-> NoErr, recv |-> initParams(w.recv), failed |-> FALSE]

\* what two plans must share to have identical descriptor content
Content(recv) ==
    [params |-> [i \in DOMAIN recv.params |->
                   [sel |-> recv.params[i].sel, in |-> recv.params[i].in,
                    name |-> recv.params[i].name,
                    required |-> recv.params[i].required]],
     flags |-> <<recv.hasRawBody, recv.hasBody, recv.hasQuery, recv.hasPath,
                 recv.hasCookie, recv.hasAuto, recv.hasVd>>]

\* ---------------------------------------------------------------- requests
\* A request: the names present in each source, whether the body carries
\* bytes, and the names whose value does not convert to the field's type.
Req(q, h, pa, c, b, raw, bad) ==
    [query |-> q, header |-> h, path |-> pa, cookie |-> c, body |-> b,
     raw |-> raw, bad |-> bad]

Requests ==
    { Req({"a", "b", "mq"}, {"X-M"}, {"id"}, {"sid"}, {}, FALSE, {}),
      Req({"a", "b"}, {}, {}, {}, {"a"}, TRUE, {}),
      Req({"b"}, {}, {"id"}, {"sid"}, {}, FALSE, {"sid"}) }

NoReq == Req({}, {}, {}, {}, {}, FALSE, {"-"})

\* ---------------------------------------------------------------- extraction
\* The result of one extractor: whether the name was found, the error, and
\* whether the field was written.
Ext(found, err, wrote) == [found |-> found, err |-> err, wrote |-> wrote]

bindMapStrings(p, names, req) ==
    IF p.name \notin names
    THEN Ext(FALSE, IF p.required THEN p.requiredError ELSE NoErr, FALSE)
    ELSE IF p.name \in req.bad THEN Ext(TRUE, p.typeError, FALSE)
    ELSE Ext(TRUE, NoErr, TRUE)

bindQuery(p, req) == bindMapStrings(p, req.query, req)
bindPath(p, req) == bindMapStrings(p, req.path, req)
bindHeader(p, req) == bindMapStrings(p, req.header, req)
bindCookie(p, req) == bindMapStrings(p, req.cookie, req)
bindBody(p, req) == bindMapStrings(p, req.body, req)
bindRawBody(p, req) ==
    IF ~req.raw
    THEN Ext(FALSE, IF p.required THEN p.requiredError ELSE NoErr, FALSE)
    ELSE Ext(TRUE, NoErr, TRUE)

\* The result of binding one descriptor: the error and the writes made,
\* each write a field selector with the source the value came from.
Wr(sel, src) == [sel |-> sel, src |-> src]
One(p, src, e) ==
    [err |-> e.err, writes |-> IF e.wrote THEN {Wr(p.sel, src)} ELSE {}]

\* bindAuto consulting the query whatever the body held
bindAuto_alwaysQuery(p, req) ==
    LET b1 == bindBody(p, req)
        q1 == bindQuery(p, req)
    IN  [err |-> q1.err,
         writes |-> One(p, body, b1).writes \cup One(p, query, q1).writes]

\* the default branch of the switch in bind: body first, query when the
\* body had no value for the name
bindAuto(p, req) ==
    LET b1 == bindBody(p, req)
    IN  IF ~b1.found
        THEN LET q1 == bindQuery(p, req)
             IN  [err |-> q1.err,
                  writes |-> One(p, body, b1).writes \cup One(p, query, q1).writes]
        ELSE One(p, body, b1)

\* the switch on param.in in bind
bindParam(p, req) ==
    CASE p.in = query -> One(p, query, bindQuery(p, req))
      [] p.in = path -> One(p, path, bindPath(p, req))
      [] p.in = header -> One(p, header, bindHeader(p, req))
      [] p.in = cookie -> One(p, cookie, bindCookie(p, req))
      [] p.in = body -> One(p, body, bindBody(p, req))
      [] p.in = raw_body -> One(p, raw_body, bindRawBody(p, req))
      [] OTHER -> bindAuto(p, req)

\* bindLoop going on after a failed descriptor, keeping the first error
RECURSIVE bindLoop_noStop(_, _, _, _)
bindLoop_noStop(params, i, req, st) ==
    IF i > Len(params) THEN st
    ELSE LET r == bindParam(params[i], req)
         IN  bindLoop_noStop(params, i + 1, req,
                 [err |-> IF st.err # NoErr THEN st.err ELSE r.err,
                  writes |-> st.writes \cup r.writes,
                  seen |-> Append(st.seen, params[i].sel)])

\* the loop over recv.params in bind: st has the error, the writes made so
\* far and the selectors of the descriptors processed
RECURSIVE bindLoop(_, _, _, _)
bindLoop(params, i, req, st) ==
    IF i > Len(params) THEN st
    ELSE LET r == bindParam(params[i], req)
             st1 == [err |-> r.err, writes |-> st.writes \cup r.writes,
                     seen |-> Append(st.seen, params[i].sel)]
         IN  IF r.err # NoErr THEN st1
             ELSE bindLoop(params, i + 1, req, st1)

\* bind, after getObjOrPrepare returned recv
bind(recv, req) ==
    LET st == bindLoop(recv.params, 1, req,
                       [err |-> NoErr, writes |-> {}, seen |-> << >>])
    IN  [hasVd |-> recv.hasVd, err |-> st.err, writes |-> st.writes,
         seen |-> st.seen]

\* the validator: a field with a validation rule must not be left at its
\* zero value
RuleFields(T) ==
    { FieldsOf(T)[i].sel : i \in { j \in DOMAIN FieldsOf(T) :
          \E e \in FieldsOf(T)[j].evals : e.n = MatchExprName } }

Validate(T, writes, vfac) ==
    LET bad == { s \in RuleFields(T) : ~\E w \in writes : w.sel = s }
    IN  IF bad = {} THEN NoErr
        ELSE MkErr("vd", vfac, CHOOSE s \in bad : TRUE, "")

\* ---------------------------------------------------------------- destinations
\* What the caller passes as structPointer.
Dests ==
    [ptrStruct |-> [ptr |-> TRUE, elem |-> "struct", addr |-> TRUE, valid |-> TRUE],
     nilPtr    |-> [ptr |-> TRUE, elem |-> "invalid", addr |-> FALSE, valid |-> FALSE],
     ptrInt    |-> [ptr |-> TRUE, elem |-> "int", addr |-> TRUE, valid |-> TRUE],
     structVal |-> [ptr |-> FALSE, elem |-> "struct", addr |-> FALSE, valid |-> TRUE]]
DestKinds == DOMAIN Dests
\* the destinations a caller passes: a pointer to a record of every type, and
\* the values that are no pointer to a record
Destinations ==
    { [T |-> T, dk |-> "ptrStruct"] : T \in TypeIDs }
      \cup { [T |-> "TEmpty", dk |-> k] : k \in DestKinds \ {"ptrStruct"} }

\* structValueOf without the check of what the pointer points to
structValueOf_ptrOnly(d, fac) ==
    IF ~d.ptr THEN MkErr("bind", fac, "", StructPointerMsg) ELSE NoErr

structValueOf(d, fac) ==
    IF ~d.ptr THEN MkErr("bind", fac, "", StructPointerMsg)
    ELSE IF d.elem # "struct" \/ ~d.addr \/ ~d.valid
    THEN MkErr("bind", fac, "", StructPointerMsg)
    ELSE NoErr

\* validating although bind failed
ShouldValidate_onError(op, err, hasVd) ==
    op = "BindAndValidate" /\ hasVd

\* BindAndValidate validates after a successful bind that reports rules;
\* Bind never does
ShouldValidate(op, err, hasVd) ==
    op = "BindAndValidate" /\ err = NoErr /\ hasVd

\* a lookup that never finds the plan
LoadOk_never(m, T) == FALSE

\* the lookup at the head of getObjOrPrepare
LoadOk(m, T) == m[T] # NoPlan

\* going on to Store whatever the walk reported
AfterPrepare_always(failed) == "store"

\* where getObjOrPrepare goes after the walk: return the error, or go on to
\* initParams and Store
AfterPrepare(failed) == IF failed THEN "done" ELSE "store"

\* SetLevel's switch
LevelOf(l) == IF l \in {OnlyFirst, FirstAndTagged, Any} THEN l ELSE FirstAndTagged

\* a nil argument resetting both factories
FactoriesOf_resetBoth(f, v) ==
    IF f = Nil \/ v = Nil
    THEN [bind |-> defaultBindErrFactory, vd |-> defaultValidatingErrFactory]
    ELSE [bind |-> f, vd |-> v]

\* SetErrorFactory: the two factories in effect after the call
FactoriesOf(f, v) ==
    [bind |-> IF f = Nil THEN defaultBindErrFactory ELSE f,
     vd |-> IF v = Nil THEN defaultValidatingErrFactory ELSE v]

\* ---------------------------------------------------------------- state
VARIABLES
    level,            \* b.level
    bindErrFactory,   \* b.bindErrFactory
    vdErrFactory,     \* the error factory of b.vd
    recvs,            \* b.recvs: type id -> plan, NoPlan when absent
    th,               \* per goroutine: the call in progress
    calls,            \* calls started
    sets,             \* configuration calls made
    walks,            \* per type: plan-building walks executed
    lastSet           \* arguments of the latest SetErrorFactory call

vars == <<level, bindErrFactory, vdErrFactory, recvs, th, calls, sets,
          walks, lastSet>>

Idle ==
    [pc |-> "idle", op |-> "", T |-> "", dk |-> "", recv |-> NoPlan,
     buildFailed |-> FALSE, err |-> NoErr, hasVd |-> FALSE,
     berr |-> NoErr, writes |-> {}, seen |-> << >>, validated |-> FALSE,
     req |-> NoReq]

\* A finished call returns before any other step is taken: returning
\* touches nothing that is shared.
Returning == \E g \in Goroutines : th[g].pc = "done"

\* A call that has built its plan stores it before any other step is taken:
\* between the walk and b.recvs.Store the call reads nothing that is shared,
\* so every run is one of these runs with steps of other calls moved before
\* the walk or after the Store.
Storing == \E g \in Goroutines : th[g].pc = "store"

\* A call that was given a pointer to a record looks its type up before any
\* other step is taken: up to b.recvs.Load the call reads nothing that is
\* shared, so every run is one of these runs with the start of the call
\* moved to just before its lookup.
Loading == \E g \in Goroutines : th[g].pc = "load"

\* New("api"): SetLevel(FirstAndTagged).SetErrorFactory(nil, nil)
Init ==
    /\ level = LevelOf(FirstAndTagged)
    /\ bindErrFactory = FactoriesOf(Nil, Nil).bind
    /\ vdErrFactory = FactoriesOf(Nil, Nil).vd
    /\ recvs = [T \in TypeIDs |-> NoPlan]
    /\ th = [g \in Goroutines |-> Idle]
    /\ calls = 0
    /\ sets = 0
    /\ walks = [T \in TypeIDs |-> 0]
    /\ lastSet = [f |-> Nil, v |-> Nil]

SetLevel(l) ==
    /\ ~Returning /\ ~Storing /\ ~Loading
    /\ level' = LevelOf(l)
    /\ sets' = sets + 1
    /\ UNCHANGED <<bindErrFactory, vdErrFactory, recvs, th, calls, walks,
                   lastSet>>

SetErrorFactory(f, v) ==
    /\ ~Returning /\ ~Storing /\ ~Loading
    /\ bindErrFactory' = FactoriesOf(f, v).bind
    /\ vdErrFactory' = FactoriesOf(f, v).vd
    /\ lastSet' = [f |-> f, v |-> v]
    /\ sets' = sets + 1
    /\ UNCHANGED <<level, recvs, th, calls, walks>>

\* Bind / BindAndValidate up to the return of structValueOf. A call takes
\* the first goroutine that is free: which goroutine runs a call makes no
\* difference to it.
Call(g, T, dk) ==
    /\ th[g].pc = "idle"
    /\ ~Returning /\ ~Storing /\ ~Loading
    /\ \A h \in Goroutines : h < g => th[h].pc # "idle"
    /\ calls < MaxCalls
    /\ calls' = calls + 1
    /\ LET e == structValueOf(Dests[dk], bindErrFactory)
       IN  th' = [th EXCEPT ![g] =
                    [Idle EXCEPT !.T = T, !.dk = dk, !.err = e,
                                 !.pc = IF e # NoErr THEN "done" ELSE "load"]]
    /\ UNCHANGED <<level, bindErrFactory, vdErrFactory, recvs, sets,
                   walks, lastSet>>

\* getObjOrPrepare: b.recvs.Load
Load(g) ==
    /\ th[g].pc = "load"
    /\ ~Returning /\ ~Storing
    /\ th' = [th EXCEPT ![g] =
                IF LoadOk(recvs, th[g].T)
                THEN [@ EXCEPT !.recv = recvs[th[g].T], !.pc = "bind"]
                ELSE [@ EXCEPT !.pc = "build"]]
    /\ UNCHANGED <<level, bindErrFactory, vdErrFactory, recvs, calls,
                   sets, walks, lastSet>>

\* getObjOrPrepare: compile, walk the fields, initParams
Build(g) ==
    /\ th[g].pc = "build"
    /\ ~Returning /\ ~Storing /\ ~Loading
    /\ \E ord \in Orders(th[g].T) :
         LET r == Prepare(th[g].T, walks[th[g].T] + 1, level, bindErrFactory, ord)
             to == AfterPrepare(r.failed)
         IN  th' = [th EXCEPT ![g] =
                      [@ EXCEPT !.pc = to, !.buildFailed = r.failed,
                                !.err = r.err,
                                !.recv = IF to = "store" THEN r.recv ELSE NoPlan]]
    /\ walks' = [walks EXCEPT ![th[g].T] = @ + 1]
    /\ UNCHANGED <<level, bindErrFactory, vdErrFactory, recvs, calls, sets, lastSet>>

\* getObjOrPrepare: b.recvs.Store
Store(g) ==
    /\ th[g].pc = "store"
    /\ ~Returning
    /\ recvs' = [recvs EXCEPT ![th[g].T] = th[g].recv]
    /\ th' = [th EXCEPT ![g].pc = "bind"]
    /\ UNCHANGED <<level, bindErrFactory, vdErrFactory, calls, sets,
                   walks, lastSet>>

\* The rest of the call once getObjOrPrepare returned: bind, and in
\* BindAndValidate the validation. The request and which of Bind and
\* BindAndValidate the call is are first read here, so they are drawn here.
Dispatch(g, op, req) ==
    /\ th[g].pc = "bind"
    /\ ~Returning /\ ~Storing /\ ~Loading
    /\ LET r == bind(th[g].recv, req)
           vd == ShouldValidate(op, r.err, r.hasVd)
       IN  th' = [th EXCEPT ![g] =
                    [@ EXCEPT !.err = IF vd THEN Validate(th[g].T, r.writes, vdErrFactory)
                                      ELSE r.err,
                              !.writes = r.writes, !.seen = r.seen,
                              !.hasVd = r.hasVd, !.req = req, !.op = op,
                              !.validated = vd, !.berr = r.err, !.pc = "done"]]
    /\ UNCHANGED <<level, bindErrFactory, vdErrFactory, recvs, calls,
                   sets, walks, lastSet>>

\* the call returns to its caller
Return(g) ==
    /\ th[g].pc = "done"
    /\ th' = [th EXCEPT ![g] = Idle]
    /\ UNCHANGED <<level, bindErrFactory, vdErrFactory, recvs, calls,
                   sets, walks, lastSet>>

Next ==
    \/ \E l \in LevelArgs : sets < MaxSets /\ SetLevel(l)
    \/ \E f \in BindFactoryArgs, v \in VdFactoryArgs :
          sets < MaxSets /\ SetErrorFactory(f, v)
    \/ \E g \in Goroutines, d \in Destinations : Call(g, d.T, d.dk)
    \/ \E g \in Goroutines : Load(g)
    \/ \E g \in Goroutines : Build(g)
    \/ \E g \in Goroutines : Store(g)
    \/ \E g \in Goroutines, op \in {"Bind", "BindAndValidate"}, req \in Requests :
          Dispatch(g, op, req)
    \/ \E g \in Goroutines : Return(g)

Spec == Init /\ [][Next]_vars

\* the configuration calls alone, in longer sequences
ConfigNext ==
    \/ \E l \in LevelArgs : sets < MaxCfgSets /\ SetLevel(l)
    \/ \E f \in CfgBindFactoryArgs, v \in CfgVdFactoryArgs :
          sets < MaxCfgSets /\ SetErrorFactory(f, v)

SpecConfig == Init /\ [][ConfigNext]_vars

\* the runs in which the configuration calls are made between binding
\* calls, none while a call is in progress
NoCallInProgress == \A g \in Goroutines : th[g].pc = "idle"

QuietNext ==
    \/ \E l \in LevelArgs : sets < MaxSets /\ NoCallInProgress /\ SetLevel(l)
    \/ \E f \in BindFactoryArgs, v \in VdFactoryArgs :
          sets < MaxSets /\ NoCallInProgress /\ SetErrorFactory(f, v)
    \/ \E g \in Goroutines, d \in Destinations : Call(g, d.T, d.dk)
    \/ \E g \in Goroutines : Load(g)
    \/ \E g \in Goroutines : Build(g)
    \/ \E g \in Goroutines : Store(g)
    \/ \E g \in Goroutines, op \in {"Bind", "BindAndValidate"}, req \in Requests :
          Dispatch(g, op, req)
    \/ \E g \in Goroutines : Return(g)

SpecQuiet == Init /\ [][QuietNext]_vars

\* ================================================================ claims
InCall(g) == th[g].pc # "idle"
\* the call of g ran the dispatch loop
Dispatched(g) == th[g].pc = "done" /\ th[g].req # NoReq
ValidDest(d) == d.ptr /\ d.elem = "struct" /\ d.addr /\ d.valid

\* C1: every call for a type uses the one plan instance the cache holds for
\* it: a goroutine that got a plan from getObjOrPrepare holds the instance a
\* lookup returns now.
C1_SinglePlanInstance ==
    \A g \in Goroutines :
        (th[g].pc \in {"bind", "done"} /\ th[g].recv # NoPlan)
            => recvs[th[g].T] = th[g].recv

\* C2 (as stated): the plan-building walk is executed at most once per type.
C2_WalkAtMostOnce == \A T \in TypeIDs : walks[T] <= 1

\* C2 (amended): a walk for T is executed only by a call whose lookup found
\* no plan for T, so no call that looks T up after a plan was stored walks.
C2_WalkOnlyOnMiss ==
    [][ /\ \A g \in Goroutines :
              (th[g].pc = "load" /\ th'[g].pc = "build")
                  => recvs[th[g].T] = NoPlan
        /\ \A g \in Goroutines :
              (th[g].pc = "load" /\ recvs[th[g].T] # NoPlan /\ th'[g] # th[g])
                  => (th'[g].pc = "bind" /\ walks' = walks)
        /\ \A T \in TypeIDs :
              walks'[T] # walks[T]
                  => \E g \in Goroutines : th[g].pc = "build" /\ th[g].T = T
      ]_vars

C2_Witness ==
    \E g1, g2 \in Goroutines :
        /\ g1 # g2 /\ th[g1].pc = "bind" /\ th[g2].pc = "bind"
        /\ th[g1].T = th[g2].T /\ walks[th[g1].T] = 1
        /\ th[g1].recv # NoPlan /\ th[g1].recv = th[g2].recv

\* whether the value for descriptor p is missing or unusable in req
NameIn(p, req) ==
    CASE p.in = query -> p.name \in req.query
      [] p.in = path -> p.name \in req.path
      [] p.in = header -> p.name \in req.header
      [] p.in = cookie -> p.name \in req.cookie
      [] p.in = body -> p.name \in req.body
      [] p.in = raw_body -> req.raw
      [] OTHER -> p.name \in req.body \/ p.name \in req.query
Fails(p, req) ==
    IF ~NameIn(p, req) THEN p.required
    ELSE p.in # raw_body /\ p.name \in req.bad
FirstFailing(ps, req) ==
    IF \E i \in DOMAIN ps : Fails(ps[i], req)
    THEN CHOOSE i \in DOMAIN ps :
             Fails(ps[i], req) /\ \A j \in 1..(i - 1) : ~Fails(ps[j], req)
    ELSE 0

\* C3: bind processes the descriptors in plan order and stops at the first
\* one that fails: the error is that descriptor's, none after it is
\* processed and no field after it is written.
C3_StopsAtFirstFailure ==
    \A g \in Goroutines :
        Dispatched(g) =>
            LET ps == th[g].recv.params
                k == FirstFailing(ps, th[g].req)
                n == IF k = 0 THEN Len(ps) ELSE k
            IN  /\ th[g].seen = [i \in 1..n |-> ps[i].sel]
                /\ (k = 0) = (th[g].berr = NoErr)
                /\ k # 0 => /\ th[g].berr.kind = "bind"
                            /\ th[g].berr.sel = ps[k].sel
                /\ \A w \in th[g].writes :
                       \E i \in 1..n : ps[i].sel = w.sel /\ ~Fails(ps[i], th[g].req)

C3_Witness ==
    \E g \in Goroutines :
        /\ Dispatched(g) /\ th[g].berr # NoErr
        /\ Len(th[g].recv.params) > Len(th[g].seen)
        /\ th[g].recv.params[Len(th[g].seen)].in = auto
        /\ NameIn(th[g].recv.params[Len(th[g].seen) + 1], th[g].req)

\* C4: an auto descriptor is bound from the body when the body has its
\* name, without consulting the query, and from the query when only the
\* query has it.
C4_AutoBodyFirst ==
    \A g \in Goroutines :
        Dispatched(g) =>
            \A i \in 1..Len(th[g].seen) :
                LET p == th[g].recv.params[i]
                    ok == p.name \notin th[g].req.bad
                IN  p.in = auto =>
                      /\ p.name \in th[g].req.body =>
                           /\ Wr(p.sel, query) \notin th[g].writes
                           /\ ok => Wr(p.sel, body) \in th[g].writes
                      /\ (p.name \notin th[g].req.body /\ p.name \in th[g].req.query /\ ok)
                           => /\ Wr(p.sel, query) \in th[g].writes
                              /\ Wr(p.sel, body) \notin th[g].writes

AutoFrom(g, i, src) ==
    LET p == th[g].recv.params[i]
    IN  /\ p.in = auto /\ Wr(p.sel, src) \in th[g].writes
        /\ p.name \in th[g].req.query
        /\ (src = body) = (p.name \in th[g].req.body)
C4_Witness ==
    \E g \in Goroutines :
        /\ Dispatched(g)
        /\ \E i, j \in 1..Len(th[g].seen) : AutoFrom(g, i, body) /\ AutoFrom(g, j, query)

\* C5: the validator runs exactly when the call is BindAndValidate, the
\* binding succeeded and the plan has hasVd; its result is returned as it
\* is; Bind never runs it.
C5_ValidateAfterBind ==
    \A g \in Goroutines :
        th[g].pc = "done" =>
            /\ th[g].validated =
                 ( /\ th[g].op = "BindAndValidate" /\ ValidDest(Dests[th[g].dk])
                   /\ th[g].req # NoReq /\ th[g].berr = NoErr
                   /\ th[g].recv.hasVd )
            /\ th[g].validated =>
                 \E vf \in {FactoriesOf(Nil, v).vd : v \in VdFactoryArgs} :
                     th[g].err = Validate(th[g].T, th[g].writes, vf)
            /\ (th[g].req # NoReq /\ ~th[g].validated) => th[g].err = th[g].berr

C5_Witness ==
    \E g \in Goroutines :
        /\ th[g].pc = "done" /\ th[g].validated /\ th[g].err.kind = "vd"
        /\ th[g].writes # {}

\* C6: every error a call returns was constructed by the bind-error factory
\* or the validation-error factory.
C6_ErrorsFromFactories ==
    \A g \in Goroutines :
        th[g].pc = "done" => th[g].err.kind \in {"nil", "bind", "vd"}

\* C7: a failed plan build stores nothing: the step of a call whose build
\* fails leaves the cache as it is and ends the call with the error, no
\* descriptor dispatched; the cache never holds a plan of a failed build, so
\* a later call for the type builds again.
C7_FailedBuildNotCached ==
    [][ /\ \A g \in Goroutines :
              (th'[g].buildFailed /\ th'[g] # th[g]) =>
                  /\ th'[g].pc = "done" /\ th'[g].err # NoErr
                  /\ th'[g].recv = NoPlan /\ th'[g].req = NoReq
                  /\ th'[g].writes = {} /\ th'[g].seen = << >>
                  /\ ~th'[g].validated
                  /\ recvs' = recvs
        /\ \A T \in TypeIDs : recvs'[T] # NoPlan => recvs'[T].inited
        /\ \A g \in Goroutines :
              (th[g].pc = "load" /\ recvs[th[g].T] = NoPlan /\ th'[g] # th[g])
                  => th'[g].pc = "build"
      ]_vars

C7_Witness ==
    \E g \in Goroutines :
        /\ th[g].buildFailed /\ th[g].err.kind = "bind"
        /\ walks[th[g].T] = 2 /\ recvs[th[g].T] = NoPlan

\* C8: two walks of one type under one level give plans of identical
\* descriptor content (no configuration call was made, so both walks read
\* the level set at construction).
C8_BuildIdempotent ==
    \A g \in Goroutines :
        (sets = 0 /\ th[g].pc = "store" /\ recvs[th[g].T] # NoPlan)
            => Content(th[g].recv) = Content(recvs[th[g].T])

\* C9: each factory in effect after SetErrorFactory depends on its own
\* argument only: an argument that names the factory in effect leaves it
\* unchanged whatever the other argument is, and nil restores that
\* factory's default and leaves the other to its own argument.
Eff(x, d) == IF x = Nil THEN d ELSE x
C9_FactoriesIndependent ==
    [][ sets' # sets =>
          /\ Eff(lastSet'.v, defaultValidatingErrFactory) = vdErrFactory
                => vdErrFactory' = vdErrFactory
          /\ Eff(lastSet'.f, defaultBindErrFactory) = bindErrFactory
                => bindErrFactory' = bindErrFactory
          /\ lastSet'.f = Nil
                => /\ bindErrFactory' = defaultBindErrFactory
                   /\ vdErrFactory' = Eff(lastSet'.v, defaultValidatingErrFactory)
          /\ lastSet'.v = Nil
                => /\ vdErrFactory' = defaultValidatingErrFactory
                   /\ bindErrFactory' = Eff(lastSet'.f, defaultBindErrFactory)
      ]_vars

C9_Witness ==
    /\ sets >= 2 /\ level = Any /\ lastSet.f = Nil /\ lastSet.v = "v2"
    /\ bindErrFactory = defaultBindErrFactory /\ vdErrFactory = "v2"

\* C10: a destination that is no non-nil pointer to an addressable struct
\* ends the call at once with the bind-error factory's error (empty
\* selector, fixed message); no lookup, no walk, no write, no validation.
C10_BadDestinationFailsFirst ==
    [][ \A g \in Goroutines :
          (th'[g] # th[g] /\ th'[g].pc # "idle" /\ ~ValidDest(Dests[th'[g].dk])) =>
              /\ th[g].pc = "idle" /\ th'[g].pc = "done"
              /\ th'[g].err = MkErr("bind", bindErrFactory, "", StructPointerMsg)
              /\ recvs' = recvs /\ walks' = walks
              /\ th'[g].recv = NoPlan /\ th'[g].writes = {}
              /\ th'[g].seen = << >> /\ ~th'[g].validated
      ]_vars

C10_Witness ==
    \E g \in Goroutines :
        /\ th[g].pc = "done" /\ th[g].dk = "nilPtr"
        /\ th[g].err = MkErr("bind", "f1", "", StructPointerMsg)
        /\ \E T \in TypeIDs : recvs[T] # NoPlan

\* the selectors of the fields of T that level lvl admits, in field order
AdmittedSels(T, lvl) ==
    LET fs == SelectSeq(FieldsOf(T), LAMBDA f : Admits(lvl, f))
    IN  [i \in DOMAIN fs |-> fs[i].sel]
\* the selectors of the descriptors of a plan, in plan order
PlanSels(recv) == [i \in DOMAIN recv.params |-> recv.params[i].sel]

\* C11: every plan the cache holds, and every plan a call is about to
\* dispatch with, has exactly the descriptors the Binding's current level
\* selects for its type, also after SetLevel was called.
C11_PlansFollowLevel ==
    /\ \A T \in TypeIDs :
          recvs[T] # NoPlan => PlanSels(recvs[T]) = AdmittedSels(T, level)
    /\ \A g \in Goroutines :
          (th[g].pc = "bind" /\ th[g].recv # NoPlan)
              => PlanSels(th[g].recv) = AdmittedSels(th[g].T, level)

\* a type whose tags compile and that has no validation rule
NoRules(T) ==
    /\ Compiles(T)
    /\ \A i \in DOMAIN FieldsOf(T) :
          \A e \in FieldsOf(T)[i].evals : e.n # MatchExprName
\* a type none of whose fields can be bound
NoBindableFields(T) == \A i \in DOMAIN FieldsOf(T) : ~FieldsOf(T)[i].canSet
\* a type that has no field at all
NoFields(T) == FieldsOf(T) = << >>
\* the call of g was given a pointer to a record and has returned its result
Finished(g) == th[g].pc = "done" /\ ValidDest(Dests[th[g].dk])

Selects(lvl, f) ==
    \/ ~f.nested
    \/ /\ lvl = FirstAndTagged
       /\ \E e \in f.evals :
             e.n \in {"raw_body", "body", "query", "path", "header", "cookie",
                      "required"}
    \/ lvl = Any
SelectedSels(T, lvl) ==
    LET fs == SelectSeq(FieldsOf(T), LAMBDA f : Selects(lvl, f))
    IN  [i \in DOMAIN fs |-> fs[i].sel]
\* whether the walk of T stops at a field the policy selects
StopsWalk(f) == ~f.canSet \/ \E e \in f.evals : e.n \in SourceDirectives /\ e.a = BadArg

\* C13: a walk that succeeds makes a descriptor for exactly the fields the
\* level selects (top-level fields always, nested fields never under
\* OnlyFirst, only with a source or required directive under FirstAndTagged,
\* always under Any), in field order; a walk fails only at a selected field;
\* SetLevel with one of the three levels sets it, with any other value it
\* sets FirstAndTagged.
C13_LevelAdmits ==
    [][ /\ \A l \in LevelArgs :
              SetLevel(l) =>
                  level' = (IF l \in {OnlyFirst, FirstAndTagged, Any} THEN l
                            ELSE FirstAndTagged)
        /\ \A g \in Goroutines :
              (th[g].pc = "build" /\ th'[g] # th[g] /\ Compiles(th[g].T)) =>
                  IF th'[g].pc = "store"
                  THEN PlanSels(th'[g].recv) = SelectedSels(th[g].T, level)
                  ELSE \E i \in DOMAIN FieldsOf(th[g].T) :
                          /\ Selects(level, FieldsOf(th[g].T)[i])
                          /\ StopsWalk(FieldsOf(th[g].T)[i])
      ]_vars

C13_Witness ==
    \E g \in Goroutines :
        /\ th[g].pc = "store" /\ th[g].T = "TNested"
        /\ level = OnlyFirst /\ sets = 1
        /\ PlanSels(th[g].recv) = << "Top" >>

\* whether some descriptor of the plan has src as its final source
SomeFinal(recv, src) == \E i \in DOMAIN recv.params : recv.params[i].in = src
\* whether the field of T that descriptor p stands for has a validation rule
HasRule(T, p) ==
    \E i \in DOMAIN FieldsOf(T) :
        /\ FieldsOf(T)[i].sel = p.sel
        /\ \E e \in FieldsOf(T)[i].evals : e.n = MatchExprName
FlagsAreFinal(T, recv) ==
    /\ recv.hasQuery = SomeFinal(recv, query)
    /\ recv.hasPath = SomeFinal(recv, path)
    /\ recv.hasCookie = SomeFinal(recv, cookie)
    /\ recv.hasRawBody = SomeFinal(recv, raw_body)
    /\ recv.hasBody = SomeFinal(recv, body)
    /\ recv.hasAuto = SomeFinal(recv, auto)
    /\ recv.hasVd = \E i \in DOMAIN recv.params : HasRule(T, recv.params[i])

\* C14: in every successfully built plan (the plan a call is about to
\* store) each source flag is set exactly when some descriptor has that
\* source as its final source, and hasVd exactly when some admitted field
\* carries a validation rule.
C14_FlagsAreOrOfFinalSources ==
    \A g \in Goroutines :
        th[g].pc = "store" => FlagsAreFinal(th[g].T, th[g].recv)

\* C14 (amended): in every plan a call is about to store a source flag is
\* set exactly when some field with a descriptor carries that directive, final
\* or not; hasBody is set also when some descriptor is auto; hasAuto exactly
\* when some descriptor is auto; hasVd exactly when some field with a
\* descriptor carries a validation rule. A descriptor's final source is one
\* of the directives its field carries, or auto when it carries none, so
\* every final source that has a flag has its flag set.
Carries(T, p, d) ==
    \E i \in DOMAIN FieldsOf(T) :
        FieldsOf(T)[i].sel = p.sel /\ \E e \in FieldsOf(T)[i].evals : e.n = d
SomeCarries(T, recv, d) == \E i \in DOMAIN recv.params : Carries(T, recv.params[i], d)
FlagsFollowDirectives(T, recv) ==
    /\ recv.hasQuery = SomeCarries(T, recv, query)
    /\ recv.hasPath = SomeCarries(T, recv, path)
    /\ recv.hasCookie = SomeCarries(T, recv, cookie)
    /\ recv.hasRawBody = SomeCarries(T, recv, raw_body)
    /\ recv.hasBody = (SomeCarries(T, recv, body) \/ SomeFinal(recv, auto))
    /\ recv.hasAuto = SomeFinal(recv, auto)
    /\ recv.hasVd = SomeCarries(T, recv, MatchExprName)
    /\ \A i \in DOMAIN recv.params :
          LET p == recv.params[i]
          IN  IF \E d \in SourceDirectives : Carries(T, p, d)
              THEN p.in \in SourceDirectives /\ Carries(T, p, p.in)
              ELSE p.in = auto

C14_FlagsFollowDirectives ==
    \A g \in Goroutines :
        th[g].pc = "store" => FlagsFollowDirectives(th[g].T, th[g].recv)

C14_Witness ==
    \E g \in Goroutines :
        /\ th[g].pc = "store" /\ th[g].T = "TMulti"
        /\ th[g].recv.hasQuery /\ th[g].recv.params[1].in = header
        /\ ~SomeFinal(th[g].recv, query)
        /\ recvs["TAuto"] # NoPlan /\ recvs["TAuto"].hasBody
        /\ ~SomeFinal(recvs["TAuto"], body)

\* a plan whose construction is finished: every descriptor has its final
\* source and name, and initParams has made its errors
Complete(recv) ==
    /\ recv # NoPlan /\ recv.inited
    /\ \A i \in DOMAIN recv.params :
          LET p == recv.params[i]
          IN  /\ p.in \in SourceDirectives \cup {auto}
              /\ p.name # ""
              /\ p.requiredError.kind = "bind" /\ p.typeError.kind = "bind"

\* C15: the cache changes only by the Store of a call, to the complete plan
\* that call built; a stored plan instance is never changed afterwards, by
\* no step of any call; every reference a call holds to an instance the
\* cache holds has the same content; so a dispatch reads a complete plan.
C15_StoredPlansAreFinal ==
    [][ /\ \A T \in TypeIDs :
              recvs'[T] # recvs[T] =>
                  /\ Complete(recvs'[T])
                  /\ \E g \in Goroutines :
                        /\ th[g].pc = "store" /\ th[g].T = T
                        /\ recvs'[T] = th[g].recv /\ th'[g].recv = th[g].recv
        /\ \A T \in TypeIDs :
              (recvs[T] # NoPlan /\ recvs'[T].id = recvs[T].id)
                  => recvs'[T] = recvs[T]
        /\ \A g \in Goroutines :
              (th[g].pc \in {"store", "bind"} /\ th'[g].pc # "idle")
                  => th'[g].recv = th[g].recv
        /\ \A g \in Goroutines :
              th'[g].pc = "bind" =>
                  /\ Complete(th'[g].recv)
                  /\ th'[g].recv.id = recvs'[th'[g].T].id
                        => th'[g].recv = recvs'[th'[g].T]
      ]_vars

C15_Witness ==
    \E g1, g2 \in Goroutines :
        /\ Dispatched(g1) /\ th[g1].writes # {} /\ th[g1].T = "TMulti"
        /\ th[g2].pc = "bind" /\ th[g2].T = "TMulti"
        /\ th[g1].recv = recvs["TMulti"] /\ th[g2].recv = recvs["TMulti"]
        /\ Complete(recvs["TMulti"])

\* C16: when configuration calls are made only between binding calls,
\* every call began after the latest SetErrorFactory returned, and each
\* binding-failure error it returns is made by the bind-error factory in
\* effect (the argument of that SetErrorFactory, the default for nil), also
\* when the plan of its type was built before.
C16_ErrorsFromCurrentFactory ==
    \A g \in Goroutines :
        (th[g].pc = "done" /\ th[g].err.kind = "bind")
            => th[g].err.fac = Eff(lastSet.f, defaultBindErrFactory)

====
